---- MODULE Spec2Model ----
(***************************************************************************)
(* Model of the safebox backend (src/backend-db/src/app.ts): the ingestion *)
(* handlers handleSensorData, handleSafeStatus and handleRotationData, the *)
(* in-memory maps alertState, lastSafeStatus and lastMessageTime, the      *)
(* InfluxDB write path (writePoint + await flush) and GET /api/health.     *)
(*                                                                         *)
(* A handler is an async function: it runs without interruption up to its  *)
(* next await, so every action below is one such run.  The only awaits of  *)
(* the ingestion handlers are the flushes of the write API; a flush either *)
(* resolves (the point is persisted) or rejects (the handler throws).      *)
(*                                                                         *)
(* A point takes its timestamp when writePoint is called; the flush that   *)
(* follows sends that point, and the flushes of two handlers may settle in *)
(* either order.  The optional unit tag, the content text of an event and  *)
(* the three angles of a rotation sample enter no decision and are left    *)
(* out of the points.                                                      *)
(*                                                                         *)
(* Time is in milliseconds; the clock advances in steps of Quantum.        *)
(* Sensor values are in tenths of the unit (3.5 is 35, 3000 is 30000).     *)
(*                                                                         *)
(* The read side is modelled next to it: the health endpoint of the Prisma *)
(* variant (src/unnamed/part_001), GET /api/explorer with the dashboard    *)
(* route in front of it (src/unnamed/part_005) and GET /api/charts.  The   *)
(* explorer and the chart are functions of the rows a query delivers; the  *)
(* specifications SpecExplorer and SpecCharts start from every result set  *)
(* of a small universe of rows, in every order of delivery.                *)
(* GET /api/logs and the GETs of stored records are modelled the same way; *)
(* SpecReadOnly runs every query endpoint in between the steps of an       *)
(* ingestion, the store delivering to the queries the points it holds.     *)
(***************************************************************************)
EXTENDS Integers, Sequences, FiniteSets, TLC

VARIABLES
    now,              \* the wall clock, Date.now()
    alertState,       \* app.ts:37   Map "safeId:alertType" -> {triggered, lastTriggered}
    lastMessageTime,  \* app.ts:43   Map safeId -> Date
    lastSafeStatus,   \* app.ts:188  Map safeId -> status
    store,            \* the points persisted in InfluxDB, in the order they were flushed
    proc,             \* the handler invocations: position and locals of each
    health,           \* the last response of GET /api/health
    lastStatusMsg,    \* history: per device, the status of the last valid status message
    hitsInExcursion,  \* history: per alert key, events appended since the key was last reset
    prisma,           \* part_001: the latest sensorLog and safeStatus rows of the Prisma backend
    upstream,         \* the rows a query of the store delivers, in the order it delivers them
    explorer,         \* app.ts:664-805  GET /api/explorer: position, query, results, response
    chart,            \* app.ts:510-613  the last response of GET /api/charts
    logs,             \* app.ts:616-661  the last response of GET /api/logs
    records           \* app.ts:263-466  the last response of a GET of stored records

(* The state of the read side: the Prisma variant and the query endpoints. *)
queryVars == <<prisma, upstream, explorer, chart, logs, records>>

vars == <<now, alertState, lastMessageTime, lastSafeStatus, store, proc, health,
          lastStatusMsg, hitsInExcursion, prisma, upstream, explorer, chart, logs, records>>

-----------------------------------------------------------------------------
(* Bounds of the model *)

Quantum == 5000
MaxTime == 10000
MaxHealthTime == 40000
MaxConcTime == 5000
MaxStore == 4
MaxStatusStore == 3
MaxStoreConc == 2
MaxHealthStore == 1
MaxPrismaTime == 15000
MaxRows == 3
MaxLimit == 2
MaxOffset == 2
MaxLiveTime == 10000
MaxLiveStore == 3
MaxAlertStore == 3
MaxSameTime == 5000
MaxSameStore == 4
MaxReadTime == 5000
MaxReadStore == 1

-----------------------------------------------------------------------------
(* Program constants *)

ALERT_COOLDOWN_MS == 5000
VIBRATION_THRESHOLD == 30000
TILT_THRESHOLD == 35
HEALTH_OK_MS == 5000
HEALTH_WARN_MS == 30000
PRISMA_STALE_MS == 10000

DEFAULT_SAFE_ID == "safe-001"

SafeIds == {"safe-001", "safe-002"}
Statuses == {"open", "lock", "unlock"}
AlertKinds == {"vibration", "tilt"}
AlertKeys == SafeIds \X AlertKinds
Handlers == {1, 2}

(* null / undefined: the absent Date is -1 (every Date of the model is >= 0). *)
Null == -1
Undefined == "undefined"
NoEntry == [triggered |-> FALSE, lastTriggered |-> Null, present |-> FALSE]

(* The sensor payloads the environment sends: <<sensorType, value>>. *)
VibrationValues == {1000, 30000, 35000}
TiltValues == {20, 35, 40}
OtherValues == {250}

-----------------------------------------------------------------------------
(* Points and the write API *)

SensorPoint(safeId, sensorType, value, t) ==
    [m |-> "sensor_data", safeId |-> safeId, tag |-> sensorType, value |-> value,
     severity |-> "", time |-> t]

StatusPoint(safeId, status, t) ==
    [m |-> "safe_status", safeId |-> safeId, tag |-> status, value |-> 0,
     severity |-> "", time |-> t]

RotationPoint(safeId, t) ==
    [m |-> "rotation_data", safeId |-> safeId, tag |-> "", value |-> 0,
     severity |-> "", time |-> t]

EventPointBackdated(type, safeId, severity, t) ==
    [m |-> "event_log", safeId |-> safeId, tag |-> type, value |-> 0,
     severity |-> severity, time |-> t - Quantum]

EventPoint(type, safeId, severity, t) ==
    [m |-> "event_log", safeId |-> safeId, tag |-> type, value |-> 0,
     severity |-> severity, time |-> t]

NoPoint ==
    [m |-> "none", safeId |-> "", tag |-> "", value |-> 0, severity |-> "", time |-> Null]

NoHealth ==
    [safeId |-> "", status |-> "none", safeStatus |-> "", timeDiff |-> Null,
     lastHeartbeat |-> Null]

Idle ==
    [kind |-> "none", via |-> "none", pc |-> "idle", safeId |-> "", tag |-> "",
     value |-> 0, point |-> NoPoint, failedAt |-> "none", emitted |-> FALSE,
     prevMsg |-> Undefined]

Free(h) == proc[h].pc \in {"idle", "done", "failed"}

InFlight == {h \in Handlers : ~Free(h)}

(* Points written and not yet flushed count against the bound of the store. *)
Room(maxStore) == Len(store) + Cardinality(InFlight) < maxStore

-----------------------------------------------------------------------------
(* handleSensorData, app.ts:127-184 *)

AlertKeyPerDevice(safeId, sensorType) == <<safeId, "vibration">>

(* app.ts:146 and 165: `${data.safeId}:vibration`, `${data.safeId}:tilt`; the key is
   used only for a sample of its own sensor type (app.ts:147, 166). *)
AlertKey(safeId, sensorType) == <<safeId, sensorType>>

(* app.ts:149 and 168: alertState.get(key) || {triggered: false, lastTriggered: null} *)
AlertGet(key) ==
    IF alertState[key].present THEN alertState[key] ELSE NoEntry

(* app.ts:148 and 167: the condition of the alert kind, strictly above. *)
IsOverThresholdInclusive(sensorType, value) ==
    IF sensorType = "vibration" THEN value >= VIBRATION_THRESHOLD
    ELSE IF sensorType = "tilt" THEN value >= TILT_THRESHOLD
    ELSE FALSE

IsOverThreshold(sensorType, value) ==
    IF sensorType = "vibration" THEN value > VIBRATION_THRESHOLD
    ELSE IF sensorType = "tilt" THEN value > TILT_THRESHOLD
    ELSE FALSE

(* app.ts:153 and 172: the type tag of the event of an alert kind. *)
AlertEventType(sensorType) ==
    IF sensorType = "vibration" THEN "Hit" ELSE "Abnormal tilt detected"

ShouldTriggerIgnoringState(isHigh, cur) == isHigh

ShouldTriggerOnChange(isHigh, cur) == isHigh # cur.triggered

(* app.ts:151 and 170: the guard of the Normal -> Triggered transition. *)
ShouldTrigger(isHigh, cur) == isHigh /\ ~cur.triggered

(* app.ts:155-158 and 174-177: the guard of the reset of a triggered entry. *)
ShouldReset(isHigh, cur, t) ==
    /\ ~isHigh
    /\ cur.triggered
    /\ cur.lastTriggered # Null
    /\ t - cur.lastTriggered > ALERT_COOLDOWN_MS

ThrownAndCarriedOn(h, stage) ==
    [proc[h] EXCEPT !.pc = "flushEvent",
                    !.point = EventPoint("Hit", proc[h].safeId, "warning", now)]

(* A handler that threw: the MQTT callback logs it, the REST route answers 400. *)
Thrown(h, stage) ==
    [proc[h] EXCEPT !.pc = "failed", !.failedAt = stage, !.point = NoPoint]

Returned(h) ==
    [proc[h] EXCEPT !.pc = "done", !.point = NoPoint]

(* The status code of the answer of a REST ingestion route (app.ts:249-260,
   308-319, 364-375): res.json after the handler returned, res.status(400) from
   the catch block; 0 while the request is not answered. *)
RestStatusCode(p) ==
    IF p.pc = "done" THEN 200
    ELSE IF p.pc = "failed" THEN 400
    ELSE 0

HeartbeatBeforeParse(safeId, valid) ==
    [lastMessageTime EXCEPT ![safeId] = now]

(* app.ts:128-131: the heartbeat is set once sensorDataSchema.parse has returned. *)
Heartbeat(safeId, valid) ==
    IF valid THEN [lastMessageTime EXCEPT ![safeId] = now] ELSE lastMessageTime

(* app.ts:128-143: parse, heartbeat, writePoint, and the start of the flush. *)
StartSensor(h, via, safeId, sensorType, value, valid, maxStore) ==
    /\ Free(h)
    /\ Room(maxStore)
    /\ IF valid
       THEN /\ proc' = [proc EXCEPT ![h] =
                   [Idle EXCEPT !.kind = "sensor", !.via = via, !.pc = "flushRecord",
                                !.safeId = safeId, !.tag = sensorType, !.value = value,
                                !.point = SensorPoint(safeId, sensorType, value, now)]]
       ELSE /\ proc' = [proc EXCEPT ![h] =
                   [Idle EXCEPT !.kind = "sensor", !.via = via, !.pc = "failed",
                                !.failedAt = "parse"]]
    /\ lastMessageTime' = Heartbeat(safeId, valid)
    /\ UNCHANGED <<now, alertState, lastSafeStatus, store, health, lastStatusMsg,
                   hitsInExcursion>>
    /\ UNCHANGED queryVars

(* app.ts:143-183: the flush of the sample settles; on success the alert of the
   sample's sensor type is evaluated up to the await inside createEventLog. *)
SensorSampleFlushed(h, ok) ==
    /\ proc[h].kind = "sensor"
    /\ proc[h].pc = "flushRecord"
    /\ LET p == proc[h]
           key == AlertKey(p.safeId, p.tag)
           isHigh == IsOverThreshold(p.tag, p.value)
       IN  IF ~ok
           THEN /\ proc' = [proc EXCEPT ![h] = Thrown(h, "record")]
                /\ UNCHANGED <<alertState, store, hitsInExcursion>>
           ELSE /\ store' = Append(store, p.point)
                /\ IF p.tag \in AlertKinds /\ ShouldTrigger(isHigh, AlertGet(key))
                   THEN /\ proc' = [proc EXCEPT ![h].pc = "flushEvent",
                                      ![h].point = EventPoint(AlertEventType(p.tag),
                                                              p.safeId, "warning", now)]
                        /\ UNCHANGED <<alertState, hitsInExcursion>>
                   ELSE IF p.tag \in AlertKinds /\ ShouldReset(isHigh, AlertGet(key), now)
                   THEN /\ alertState' = [alertState EXCEPT ![key] =
                               [triggered |-> FALSE, lastTriggered |-> Null,
                                present |-> TRUE]]
                        /\ hitsInExcursion' = [hitsInExcursion EXCEPT ![key] = 0]
                        /\ proc' = [proc EXCEPT ![h] = Returned(h)]
                   ELSE /\ proc' = [proc EXCEPT ![h] = Returned(h)]
                        /\ UNCHANGED <<alertState, hitsInExcursion>>
    /\ UNCHANGED <<now, lastMessageTime, lastSafeStatus, health, lastStatusMsg>>
    /\ UNCHANGED queryVars

TriggeredEntryWithoutTime(t) ==
    [triggered |-> TRUE, lastTriggered |-> Null, present |-> TRUE]

(* The entry written at app.ts:154 and 173 once createEventLog has returned. *)
TriggeredEntry(t) ==
    [triggered |-> TRUE, lastTriggered |-> t, present |-> TRUE]

(* app.ts:153-154 and 172-173: the flush inside createEventLog settles; the
   alertState entry is written only after createEventLog has returned. *)
SensorEventFlushed(h, ok) ==
    /\ proc[h].kind = "sensor"
    /\ proc[h].pc = "flushEvent"
    /\ LET p == proc[h]
           key == AlertKey(p.safeId, p.tag)
       IN  IF ~ok
           THEN /\ proc' = [proc EXCEPT ![h] = Thrown(h, "event")]
                /\ UNCHANGED <<alertState, store, hitsInExcursion>>
           ELSE /\ store' = Append(store, p.point)
                /\ alertState' = [alertState EXCEPT ![key] = TriggeredEntry(now)]
                /\ hitsInExcursion' = [hitsInExcursion EXCEPT ![key] = @ + 1]
                /\ proc' = [proc EXCEPT ![h] = [Returned(h) EXCEPT !.emitted = TRUE]]
    /\ UNCHANGED <<now, lastMessageTime, lastSafeStatus, health, lastStatusMsg>>
    /\ UNCHANGED queryVars

-----------------------------------------------------------------------------
(* handleSafeStatus, app.ts:190-216 *)

Absent == ""

(* app.ts:192: data.safeId || "safe-001" *)
StatusSafeId(safeId) == IF safeId = Absent THEN DEFAULT_SAFE_ID ELSE safeId

StatusAlwaysChanged(previousStatus, status) == TRUE

(* app.ts:203: previousStatus !== data.status *)
StatusChanged(previousStatus, status) == previousStatus # status

(* app.ts:206-212: the event of a status. *)
StatusEventType(status) ==
    IF status = "open" THEN "Open with alarm"
    ELSE IF status = "unlock" THEN "Unlock"
    ELSE "Lock"

StatusEventSeverity(status) == IF status = "open" THEN "critical" ELSE "info"

(* app.ts:191-199: parse, writePoint, and the start of the flush. *)
StartStatus(h, via, safeIdIn, status, valid, maxStore) ==
    /\ Free(h)
    /\ Room(maxStore)
    /\ LET safeId == StatusSafeId(safeIdIn)
       IN  IF valid
           THEN /\ proc' = [proc EXCEPT ![h] =
                       [Idle EXCEPT !.kind = "status", !.via = via, !.pc = "flushRecord",
                                    !.safeId = safeId, !.tag = status,
                                    !.point = StatusPoint(safeId, status, now),
                                    !.prevMsg = lastStatusMsg[safeId]]]
                /\ lastStatusMsg' = [lastStatusMsg EXCEPT ![safeId] = status]
           ELSE /\ proc' = [proc EXCEPT ![h] =
                       [Idle EXCEPT !.kind = "status", !.via = via, !.pc = "failed",
                                    !.failedAt = "parse"]]
                /\ UNCHANGED lastStatusMsg
    /\ UNCHANGED <<now, alertState, lastMessageTime, lastSafeStatus, store, health,
                   hitsInExcursion>>
    /\ UNCHANGED queryVars

StatusCacheLeftForLater(safeId, status) == lastSafeStatus

(* app.ts:204: lastSafeStatus.set(safeId, data.status), before createEventLog. *)
StatusCacheAtChange(safeId, status) == [lastSafeStatus EXCEPT ![safeId] = status]

(* app.ts:199-213: the flush of the status record settles; on success the status is
   compared with the cache, the cache is updated and createEventLog runs up to its
   await. *)
StatusRecordFlushed(h, ok) ==
    /\ proc[h].kind = "status"
    /\ proc[h].pc = "flushRecord"
    /\ LET p == proc[h]
       IN  IF ~ok
           THEN /\ proc' = [proc EXCEPT ![h] = Thrown(h, "record")]
                /\ UNCHANGED <<store, lastSafeStatus>>
           ELSE /\ store' = Append(store, p.point)
                /\ IF StatusChanged(lastSafeStatus[p.safeId], p.tag)
                   THEN /\ lastSafeStatus' = StatusCacheAtChange(p.safeId, p.tag)
                        /\ proc' = [proc EXCEPT ![h].pc = "flushEvent",
                                      ![h].point = EventPoint(StatusEventType(p.tag),
                                                     p.safeId, StatusEventSeverity(p.tag),
                                                     now)]
                   ELSE /\ proc' = [proc EXCEPT ![h] = Returned(h)]
                        /\ UNCHANGED lastSafeStatus
    /\ UNCHANGED <<now, alertState, lastMessageTime, health, lastStatusMsg,
                   hitsInExcursion>>
    /\ UNCHANGED queryVars

(* app.ts:206-215: the flush inside createEventLog settles. *)
StatusEventFlushed(h, ok) ==
    /\ proc[h].kind = "status"
    /\ proc[h].pc = "flushEvent"
    /\ IF ~ok
       THEN /\ proc' = [proc EXCEPT ![h] = Thrown(h, "event")]
            /\ UNCHANGED store
       ELSE /\ store' = Append(store, proc[h].point)
            /\ proc' = [proc EXCEPT ![h] = [Returned(h) EXCEPT !.emitted = TRUE]]
    /\ UNCHANGED <<now, alertState, lastMessageTime, lastSafeStatus, health,
                   lastStatusMsg, hitsInExcursion>>
    /\ UNCHANGED queryVars

-----------------------------------------------------------------------------
(* handleRotationData, app.ts:219-232 *)

StartRotation(h, via, safeId, valid, maxStore) ==
    /\ Free(h)
    /\ Room(maxStore)
    /\ proc' = [proc EXCEPT ![h] =
           IF valid
           THEN [Idle EXCEPT !.kind = "rotation", !.via = via, !.pc = "flushRecord",
                             !.safeId = safeId, !.point = RotationPoint(safeId, now)]
           ELSE [Idle EXCEPT !.kind = "rotation", !.via = via, !.pc = "failed",
                             !.failedAt = "parse"]]
    /\ UNCHANGED <<now, alertState, lastMessageTime, lastSafeStatus, store, health,
                   lastStatusMsg, hitsInExcursion>>
    /\ UNCHANGED queryVars

RotationFlushed(h, ok) ==
    /\ proc[h].kind = "rotation"
    /\ proc[h].pc = "flushRecord"
    /\ IF ok
       THEN /\ store' = Append(store, proc[h].point)
            /\ proc' = [proc EXCEPT ![h] = Returned(h)]
       ELSE /\ proc' = [proc EXCEPT ![h] = Thrown(h, "record")]
            /\ UNCHANGED store
    /\ UNCHANGED <<now, alertState, lastMessageTime, lastSafeStatus, health,
                   lastStatusMsg, hitsInExcursion>>
    /\ UNCHANGED queryVars

-----------------------------------------------------------------------------
(* GET /api/health, app.ts:469-507 *)

ConnectionStatusStrict(timeDiff) ==
    IF timeDiff < HEALTH_OK_MS THEN "OK"
    ELSE IF timeDiff < HEALTH_WARN_MS THEN "WARN"
    ELSE "ERROR"

(* app.ts:478-488: the connection status of a heartbeat of the given age. *)
ConnectionStatus(timeDiff) ==
    IF timeDiff <= HEALTH_OK_MS THEN "OK"
    ELSE IF timeDiff <= HEALTH_WARN_MS THEN "WARN"
    ELSE "ERROR"

(* app.ts:495: safeStatus.charAt(0).toUpperCase() + safeStatus.slice(1) *)
Capitalize(str) ==
    IF str = "open" THEN "Open"
    ELSE IF str = "lock" THEN "Lock"
    ELSE IF str = "unlock" THEN "Unlock"
    ELSE IF str = "unknown" THEN "Unknown"
    ELSE str

HealthCountedAsMessage(safeIdIn) ==
    /\ health' = [NoHealth EXCEPT !.safeId = StatusSafeId(safeIdIn), !.status = "OK"]
    /\ lastMessageTime' = [lastMessageTime EXCEPT ![StatusSafeId(safeIdIn)] = now]
    /\ UNCHANGED <<now, alertState, lastSafeStatus, store, proc, lastStatusMsg,
                   hitsInExcursion>>
    /\ UNCHANGED queryVars

(* The handler has no await: it is one step. *)
Health(safeIdIn) ==
    /\ LET safeId == IF safeIdIn = Absent THEN DEFAULT_SAFE_ID ELSE safeIdIn
           lastMessage == lastMessageTime[safeId]
           timeDiff == IF lastMessage # Null THEN now - lastMessage ELSE Null
           safeStatus == IF lastSafeStatus[safeId] = Undefined THEN "unknown"
                         ELSE lastSafeStatus[safeId]
       IN  health' = [safeId |-> safeId,
                      status |-> IF lastMessage # Null THEN ConnectionStatus(timeDiff)
                                 ELSE "ERROR",
                      safeStatus |-> Capitalize(safeStatus),
                      timeDiff |-> timeDiff,
                      lastHeartbeat |-> IF lastMessage # Null THEN lastMessage ELSE now]
    /\ UNCHANGED <<now, alertState, lastMessageTime, lastSafeStatus, store, proc,
                   lastStatusMsg, hitsInExcursion>>
    /\ UNCHANGED queryVars

-----------------------------------------------------------------------------
(* The Prisma variant of the backend, src/unnamed/part_001.  Its requests are
   taken one after another; the database holds the rows its health endpoint and
   its POST routes read back: the time of the latest sensorLog row, the status of
   the latest safeStatus row and the type of the latest eventLog row. *)

NoRow == [sensorAt |-> Null, status |-> Undefined, lastEvent |-> Undefined]

(* part_001:52-89: POST /api/sensor-data; a create that rejects ends the request. *)
PrismaPostSensor(sensorType, value, valid, okLog, okEvent) ==
    /\ prisma' =
         IF ~valid \/ ~okLog THEN prisma
         ELSE IF /\ sensorType = "vibration" /\ value > VIBRATION_THRESHOLD
                 /\ prisma.lastEvent # Undefined /\ prisma.lastEvent # "Hit"
                 /\ okEvent
              THEN [prisma EXCEPT !.sensorAt = now, !.lastEvent = "Hit"]
              ELSE [prisma EXCEPT !.sensorAt = now]
    /\ UNCHANGED <<now, alertState, lastMessageTime, lastSafeStatus, store, proc, health,
                   lastStatusMsg, hitsInExcursion, upstream, explorer, chart, logs, records>>

(* part_001:111-165: POST /api/safe-status. *)
PrismaPostStatus(status, valid, okStatus, okEvent) ==
    /\ prisma' =
         IF ~valid \/ prisma.status = status \/ ~okStatus THEN prisma
         ELSE IF okEvent
              THEN [prisma EXCEPT !.status = status, !.lastEvent = StatusEventType(status)]
              ELSE [prisma EXCEPT !.status = status]
    /\ UNCHANGED <<now, alertState, lastMessageTime, lastSafeStatus, store, proc, health,
                   lastStatusMsg, hitsInExcursion, upstream, explorer, chart, logs, records>>

(* part_001:255-273: the status of the health response, from the latest safeStatus
   row, the time of the latest sensorLog row and the time of the request. *)
PrismaHealthStatus(rawStatus, latestSensorAt, t) ==
    LET status == IF rawStatus # Undefined THEN Capitalize(rawStatus) ELSE "WARN"
    IN  IF latestSensorAt # Null
        THEN IF t - latestSensorAt > PRISMA_STALE_MS THEN "WARN" ELSE status
        ELSE "WARN"

(* part_001:244-286: GET /api/health; dbOk is the outcome of the queries. *)
PrismaHealth(dbOk) ==
    /\ health' =
         IF dbOk
         THEN [safeId |-> "",
               status |-> PrismaHealthStatus(prisma.status, prisma.sensorAt, now),
               safeStatus |-> "",
               timeDiff |-> IF prisma.sensorAt # Null THEN now - prisma.sensorAt ELSE Null,
               lastHeartbeat |-> IF prisma.sensorAt # Null THEN prisma.sensorAt ELSE now]
         ELSE [safeId |-> "", status |-> "WARN", safeStatus |-> "", timeDiff |-> Null,
               lastHeartbeat |-> now]
    /\ UNCHANGED <<now, alertState, lastMessageTime, lastSafeStatus, store, proc,
                   lastStatusMsg, hitsInExcursion, prisma, upstream, explorer, chart, logs, records>>

-----------------------------------------------------------------------------
(* GET /api/explorer, app.ts:664-805, for the measurement sensor_data.  The query
   of the store delivers its rows one by one to the next callback and then either
   completes or reports an error; the handler awaits that, sorts, paginates and
   answers.  The _time of a row is in microseconds (the write API stamps points
   below the millisecond); a Date holds milliseconds. *)

(* new Date(time).getTime(): the digits below the millisecond are dropped. *)
GetTime(time) == time \div 1000

NoResponse == [code |-> 0, success |-> FALSE, data |-> <<>>, total |-> Null]

NoExplorer ==
    [pc |-> "idle", sortField |-> "", sortDirection |-> "", limit |-> 0, offset |-> 0,
     results |-> <<>>, response |-> NoResponse, proxied |-> NoResponse]

(* app.ts:719-727: the object pushed to results for a row of sensor_data. *)
FormatSensorRow(o) ==
    [timestamp |-> o.time, sensorType |-> o.sensorType, value |-> o.value]

(* app.ts:771 *)
SortDir(sortDirection) == IF sortDirection = "asc" THEN 1 ELSE -1

(* String.prototype.localeCompare on the sensor types of the model. *)
LocaleCompare(a, b) ==
    IF a = b THEN 0
    ELSE IF a = "tilt" /\ b = "vibration" THEN -1
    ELSE IF a = "vibration" /\ b = "tilt" THEN 1
    ELSE 0

(* app.ts:772-783: the comparator of results.sort. *)
Compare(a, b, sortField, sortDir) ==
    IF sortField = "timestamp"
    THEN sortDir * (GetTime(a.timestamp) - GetTime(b.timestamp))
    ELSE IF sortField = "value" THEN sortDir * (a.value - b.value)
    ELSE sortDir * LocaleCompare(a.sensorType, b.sensorType)

(* Array.prototype.sort is stable: a row goes behind the rows that do not compare
   greater than it and that came before it. *)
InsertRow(sorted, row, sortField, sortDir) ==
    LET k == Cardinality({i \in 1..Len(sorted) :
                              Compare(sorted[i], row, sortField, sortDir) <= 0})
    IN  SubSeq(sorted, 1, k) \o <<row>> \o SubSeq(sorted, k + 1, Len(sorted))

RECURSIVE SortRows(_, _, _)
SortRows(rows, sortField, sortDir) ==
    IF rows = <<>> THEN <<>>
    ELSE InsertRow(SortRows(SubSeq(rows, 1, Len(rows) - 1), sortField, sortDir),
                   rows[Len(rows)], sortField, sortDir)

SliceInclusive(rows, from, to) ==
    IF from >= Len(rows) THEN <<>>
    ELSE SubSeq(rows, from + 1, IF to + 1 < Len(rows) THEN to + 1 ELSE Len(rows))

(* Array.prototype.slice(from, to) for 0 <= from <= to. *)
Slice(rows, from, to) ==
    IF from >= Len(rows) \/ to <= from THEN <<>>
    ELSE SubSeq(rows, from + 1, IF to < Len(rows) THEN to ELSE Len(rows))

(* app.ts:770-788: sort, then paginate. *)
ExplorerPage(results, sortField, sortDirection, limit, offset) ==
    Slice(SortRows(results, sortField, SortDir(sortDirection)), offset, offset + limit)

(* app.ts:790-796 *)
ExplorerResult(results, sortField, sortDirection, limit, offset) ==
    [code |-> 200, success |-> TRUE,
     data |-> ExplorerPage(results, sortField, sortDirection, limit, offset),
     total |-> Len(results)]

ExplorerPartialResult(results) ==
    [code |-> 500, success |-> FALSE, data |-> results, total |-> Len(results)]

(* app.ts:797-804: the answer of the catch block. *)
ExplorerErrorResult(results) ==
    [code |-> 500, success |-> FALSE, data |-> <<>>, total |-> 0]

(* app.ts:665-711: the request is read and the query is started. *)
ExplorerStart(sortField, sortDirection, limit, offset) ==
    /\ explorer.pc \in {"idle", "answered"}
    /\ explorer' = [NoExplorer EXCEPT !.pc = "rows", !.sortField = sortField,
                                      !.sortDirection = sortDirection,
                                      !.limit = limit, !.offset = offset]
    /\ UNCHANGED <<now, alertState, lastMessageTime, lastSafeStatus, store, proc, health,
                   lastStatusMsg, hitsInExcursion, prisma, upstream, chart, logs, records>>

(* app.ts:714-760: next(row) *)
ExplorerRow ==
    /\ explorer.pc = "rows"
    /\ Len(explorer.results) < Len(upstream)
    /\ explorer' = [explorer EXCEPT !.results =
                       Append(@, FormatSensorRow(upstream[Len(explorer.results) + 1]))]
    /\ UNCHANGED <<now, alertState, lastMessageTime, lastSafeStatus, store, proc, health,
                   lastStatusMsg, hitsInExcursion, prisma, upstream, chart, logs, records>>

(* app.ts:761-763 and 797-804: error(error) rejects the promise. *)
ExplorerError ==
    /\ explorer.pc = "rows"
    /\ explorer' = [explorer EXCEPT !.pc = "done",
                                    !.response = ExplorerErrorResult(explorer.results)]
    /\ UNCHANGED <<now, alertState, lastMessageTime, lastSafeStatus, store, proc, health,
                   lastStatusMsg, hitsInExcursion, prisma, upstream, chart, logs, records>>

(* app.ts:764-796: complete() resolves the promise. *)
ExplorerComplete ==
    /\ explorer.pc = "rows"
    /\ Len(explorer.results) = Len(upstream)
    /\ explorer' = [explorer EXCEPT !.pc = "done",
                       !.response = ExplorerResult(explorer.results, explorer.sortField,
                                        explorer.sortDirection, explorer.limit,
                                        explorer.offset)]
    /\ UNCHANGED <<now, alertState, lastMessageTime, lastSafeStatus, store, proc, health,
                   lastStatusMsg, hitsInExcursion, prisma, upstream, chart, logs, records>>

(* part_005:50-72: the dashboard route that forwards the query to the backend;
   fetchOk is whether the fetch and the parse of its body succeed. *)
ExplorerProxy(fetchOk) ==
    /\ explorer.pc = "done"
    /\ explorer' = [explorer EXCEPT !.pc = "answered",
                       !.proxied = IF fetchOk /\ explorer.response.code = 200
                                   THEN explorer.response
                                   ELSE [code |-> 200, success |-> FALSE, data |-> <<>>,
                                         total |-> 0]]
    /\ UNCHANGED <<now, alertState, lastMessageTime, lastSafeStatus, store, proc, health,
                   lastStatusMsg, hitsInExcursion, prisma, upstream, chart, logs, records>>

-----------------------------------------------------------------------------
(* GET /api/charts, app.ts:510-613 (the same aggregation as part_001:289-384).
   The two queries deliver the tilt rows and the vibration rows of the device;
   values are in thousandths of the unit, an averaged value is the fraction
   num/den, and null is the fraction with den = 0. *)

NullValue == [num |-> 0, den |-> 0]

NoChart == [code |-> 0, points |-> <<>>]

(* app.ts:569-570: new Date(data.timestamp).toISOString(), a key with milliseconds. *)
TimeKey(time) == GetTime(time)

(* app.ts:574: parseFloat(value.toFixed(2)), the value to the nearest hundredth. *)
ToFixed2(value) ==
    IF value >= 0 THEN ((value + 5) \div 10) * 10
    ELSE -((((-value) + 5) \div 10) * 10)

RECURSIVE SumSeq(_)
SumSeq(values) ==
    IF values = <<>> THEN 0 ELSE values[1] + SumSeq(Tail(values))

AverageOrZero(values) ==
    IF Len(values) > 0 THEN [num |-> SumSeq(values), den |-> Len(values)]
    ELSE [num |-> 0, den |-> 1]

(* app.ts:589-594: sum / length, or null for an empty list. *)
Average(values) ==
    IF Len(values) > 0 THEN [num |-> SumSeq(values), den |-> Len(values)]
    ELSE NullValue

(* app.ts:568-584: the keys of secondlyData in the order they are created. *)
RECURSIVE KeysInOrder(_)
KeysInOrder(rows) ==
    IF rows = <<>> THEN <<>>
    ELSE LET front == KeysInOrder(SubSeq(rows, 1, Len(rows) - 1))
             key == TimeKey(rows[Len(rows)].time)
         IN  IF \E i \in 1..Len(front) : front[i] = key THEN front
             ELSE Append(front, key)

RECURSIVE ValuesAt(_, _)
(* The list a key collects from the rows of one query. *)
ValuesAt(rows, key) ==
    IF rows = <<>> THEN <<>>
    ELSE IF TimeKey(rows[1].time) = key
         THEN <<ToFixed2(rows[1].value)>> \o ValuesAt(Tail(rows), key)
         ELSE ValuesAt(Tail(rows), key)

OfType(rows, sensorType) ==
    SelectSeq(rows, LAMBDA r : r.sensorType = sensorType)

(* app.ts:604: chartPoints.sort by time, ascending. *)
RECURSIVE SortPoints(_)
SortPoints(points) ==
    IF points = <<>> THEN <<>>
    ELSE LET sorted == SortPoints(SubSeq(points, 1, Len(points) - 1))
             pt == points[Len(points)]
             k == Cardinality({i \in 1..Len(sorted) : sorted[i].t - pt.t <= 0})
         IN  SubSeq(sorted, 1, k) \o <<pt>> \o SubSeq(sorted, k + 1, Len(sorted))

(* app.ts:565-604 *)
ChartPoints(rows) ==
    LET tiltData == OfType(rows, "tilt")
        vibrationData == OfType(rows, "vibration")
        keys == KeysInOrder(tiltData \o vibrationData)
    IN  SortPoints([i \in 1..Len(keys) |->
                       [t |-> keys[i],
                        tilt |-> Average(ValuesAt(tiltData, keys[i])),
                        vib |-> Average(ValuesAt(vibrationData, keys[i]))]])

(* The whole request; ok is whether both queries complete (app.ts:534-563),
   otherwise the catch block answers 500 (app.ts:607-612). *)
Charts(ok) ==
    /\ chart' = IF ok THEN [code |-> 200, points |-> ChartPoints(upstream)]
                ELSE [code |-> 500, points |-> <<>>]
    /\ UNCHANGED <<now, alertState, lastMessageTime, lastSafeStatus, store, proc, health,
                   lastStatusMsg, hitsInExcursion, prisma, upstream, explorer,
                   logs, records>>

-----------------------------------------------------------------------------
(* GET /api/logs, app.ts:616-661. A row of the result set is an event_log point of
   the device asked for: [type, value, time, severity], time in microseconds. *)

NoLogs == [code |-> 0, limit |-> 0, results |-> <<>>, data |-> <<>>]

(* app.ts:632-637: the object pushed to results for a row. *)
FormatLogRow(o) ==
    [type |-> o.type, content |-> o.value, timestamp |-> o.time,
     severity |-> IF o.severity = Absent THEN "info" ELSE o.severity]

FormatLogRows(rows) == [i \in 1..Len(rows) |-> FormatLogRow(rows[i])]

(* app.ts:650: the comparator of results.sort, newest first. *)
LogsCompare(a, b) == GetTime(b.timestamp) - GetTime(a.timestamp)

(* Array.prototype.sort is stable. *)
InsertLog(sorted, row) ==
    LET k == Cardinality({i \in 1..Len(sorted) : LogsCompare(sorted[i], row) <= 0})
    IN  SubSeq(sorted, 1, k) \o <<row>> \o SubSeq(sorted, k + 1, Len(sorted))

RECURSIVE SortLogs(_)
SortLogs(results) ==
    IF results = <<>> THEN <<>>
    ELSE InsertLog(SortLogs(SubSeq(results, 1, Len(results) - 1)), results[Len(results)])

(* app.ts:650-653: sort, then limit. *)
LogsPage(results, limit) == Slice(SortLogs(results), 0, limit)

(* The whole request, for the rows the store delivers in the order it delivers
   them; ok is whether the query completes, otherwise the catch block answers 500
   (app.ts:655-660). *)
Logs(rows, limit, ok) ==
    /\ logs' = IF ok
               THEN [code |-> 200, limit |-> limit, results |-> FormatLogRows(rows),
                     data |-> LogsPage(FormatLogRows(rows), limit)]
               ELSE [code |-> 500, limit |-> limit, results |-> FormatLogRows(rows),
                     data |-> <<>>]
    /\ UNCHANGED <<now, alertState, lastMessageTime, lastSafeStatus, store, proc, health,
                   lastStatusMsg, hitsInExcursion, prisma, upstream, explorer, chart,
                   records>>

-----------------------------------------------------------------------------
(* GET /api/sensor-data, /api/safe-status, /api/rotation-data and their /latest
   forms, app.ts:263-466: the points of one measurement, newest first, cut to the
   limit by the store. *)

NoRecords == [code |-> 0, data |-> <<>>]

Reverse(q) == [i \in 1..Len(q) |-> q[Len(q) + 1 - i]]

(* The Flux query: filter by measurement and, when given, by safeId, sort by
   _time descending, limit. *)
QueryStore(measurement, safeId, limit) ==
    LET Matches(pt) == /\ pt.m = measurement
                       /\ (safeId = Absent \/ pt.safeId = safeId)
    IN  Slice(Reverse(SelectSeq(store, Matches)), 0, limit)

GetRecords(measurement, safeId, limit, ok) ==
    /\ records' = IF ok THEN [code |-> 200, data |-> QueryStore(measurement, safeId, limit)]
                  ELSE [code |-> 500, data |-> <<>>]
    /\ UNCHANGED <<now, alertState, lastMessageTime, lastSafeStatus, store, proc, health,
                   lastStatusMsg, hitsInExcursion, prisma, upstream, explorer, chart,
                   logs>>

-----------------------------------------------------------------------------
(* The clock. *)
Tick(maxTime) ==
    /\ now + Quantum <= maxTime
    /\ now' = now + Quantum
    /\ UNCHANGED <<alertState, lastMessageTime, lastSafeStatus, store, proc, health,
                   lastStatusMsg, hitsInExcursion>>
    /\ UNCHANGED queryVars

-----------------------------------------------------------------------------

InitIngest ==
    /\ now = 0
    /\ alertState = [k \in AlertKeys |-> NoEntry]
    /\ lastMessageTime = [s \in SafeIds |-> Null]
    /\ lastSafeStatus = [s \in SafeIds |-> Undefined]
    /\ store = <<>>
    /\ proc = [h \in Handlers |-> Idle]
    /\ health = NoHealth
    /\ lastStatusMsg = [s \in SafeIds |-> Undefined]
    /\ hitsInExcursion = [k \in AlertKeys |-> 0]

(* The read side at start: an empty Prisma database, no query made. *)
InitQuery ==
    /\ prisma = NoRow
    /\ upstream = <<>>
    /\ explorer = NoExplorer
    /\ chart = NoChart
    /\ logs = NoLogs
    /\ records = NoRecords

Init == InitIngest /\ InitQuery

(* The sensor handler, for the handler slots hs and the messages msgs
   (<<safeId, sensorType, value>>). *)
SensorSteps(hs, vias, msgs, valids, maxStore) ==
    \/ \E h \in hs, via \in vias, msg \in msgs, valid \in valids :
           StartSensor(h, via, msg[1], msg[2], msg[3], valid, maxStore)
    \/ \E h \in hs, ok \in BOOLEAN : SensorSampleFlushed(h, ok)
    \/ \E h \in hs, ok \in BOOLEAN : SensorEventFlushed(h, ok)

(* The status handler, for the messages msgs (<<safeId or Absent, status>>). *)
StatusSteps(hs, vias, msgs, valids, maxStore) ==
    \/ \E h \in hs, via \in vias, msg \in msgs, valid \in valids :
           StartStatus(h, via, msg[1], msg[2], valid, maxStore)
    \/ \E h \in hs, ok \in BOOLEAN : StatusRecordFlushed(h, ok)
    \/ \E h \in hs, ok \in BOOLEAN : StatusEventFlushed(h, ok)

RotationSteps(hs, vias, ids, valids, maxStore) ==
    \/ \E h \in hs, via \in vias, s \in ids, valid \in valids :
           StartRotation(h, via, s, valid, maxStore)
    \/ \E h \in hs, ok \in BOOLEAN : RotationFlushed(h, ok)

Msgs3(pairs) == {<<m[1], m[2][1], m[2][2]>> : m \in pairs}

(* Spec: the sensor samples of two devices handled one after another, the clock
   running. *)
SeqSensorMsgs ==
    Msgs3(({DEFAULT_SAFE_ID} \X (({"vibration"} \X {1000, 35000}) \cup ({"tilt"} \X {40})))
          \cup ({"safe-002"} \X ({"vibration"} \X {35000})))

Next ==
    \/ SensorSteps({1}, {"mqtt", "rest"}, SeqSensorMsgs, BOOLEAN, MaxStore)
    \/ Tick(MaxTime)

Spec == Init /\ [][Next]_vars

(* SpecStatus: the status messages of two devices handled one after another. *)
SeqStatusMsgs == {Absent, "safe-001", "safe-002"} \X Statuses

NextStatus ==
    StatusSteps({1}, {"mqtt", "rest"}, SeqStatusMsgs, BOOLEAN, MaxStatusStore)

SpecStatus == Init /\ [][NextStatus]_vars

(* SpecConc: two handler invocations in flight at once, an MQTT message
   callback and a REST request, interleaving at their awaits (the transport does
   not enter any decision of the handlers). *)
ConcSensorMsgs == Msgs3({DEFAULT_SAFE_ID} \X ({"vibration"} \X {1000, 35000}))
ConcStatusMsgs == {Absent} \X {"lock", "open"}

NextConc ==
    \/ SensorSteps({1}, {"mqtt"}, ConcSensorMsgs, {TRUE}, MaxStoreConc)
    \/ SensorSteps({2}, {"rest"}, ConcSensorMsgs, {TRUE}, MaxStoreConc)
    \/ StatusSteps({1}, {"mqtt"}, ConcStatusMsgs, {TRUE}, MaxStoreConc)
    \/ StatusSteps({2}, {"rest"}, ConcStatusMsgs, {TRUE}, MaxStoreConc)
    \/ Tick(MaxConcTime)

SpecConc == Init /\ [][NextConc]_vars

(* SpecSame: two status messages, one per handler slot, in flight at once: an
   MQTT message callback and a REST request, each handling a single message. *)
SameStatusMsgs == {Absent, "safe-002"} \X {"lock", "open"}

NextSame ==
    \/ \E h \in Handlers, via \in {"mqtt", "rest"}, msg \in SameStatusMsgs :
           /\ proc[h].pc = "idle"
           /\ StartStatus(h, via, msg[1], msg[2], TRUE, MaxSameStore)
    \/ \E h \in Handlers, ok \in BOOLEAN : StatusRecordFlushed(h, ok)
    \/ \E h \in Handlers, ok \in BOOLEAN : StatusEventFlushed(h, ok)
    \/ Tick(MaxSameTime)

SpecSame == Init /\ [][NextSame]_vars

(* SpecHealth: ingestion of the three kinds one after another, the clock running
   past the health thresholds, and health requests. *)
HealthSensorMsgs == {<<"safe-001", "vibration", 35000>>}

NextHealth ==
    \/ SensorSteps({1}, {"mqtt"}, HealthSensorMsgs, {TRUE}, MaxHealthStore)
    \/ StatusSteps({1}, {"mqtt"}, {<<Absent, "lock">>}, {TRUE}, MaxHealthStore)
    \/ RotationSteps({1}, {"mqtt"}, {"safe-001"}, {TRUE}, MaxHealthStore)
    \/ \E s \in SafeIds \cup {Absent} : Health(s)
    \/ Tick(MaxHealthTime)

SpecHealth == Init /\ [][NextHealth]_vars

(* SpecPrisma: the Prisma variant: sensor and status posts, the clock running past
   its staleness threshold, and health requests. *)
NextPrisma ==
    \/ \E value \in {1000, 35000}, valid, okLog, okEvent \in BOOLEAN :
           PrismaPostSensor("vibration", value, valid, okLog, okEvent)
    \/ \E status \in Statuses, valid, okStatus, okEvent \in BOOLEAN :
           PrismaPostStatus(status, valid, okStatus, okEvent)
    \/ \E dbOk \in BOOLEAN : PrismaHealth(dbOk)
    \/ Tick(MaxPrismaTime)

SpecPrisma == Init /\ [][NextPrisma]_vars

(* The sequences of at most n different members of S. *)
SeqsOf(S, n) ==
    UNION {{q \in [1..k -> S] : \A i, j \in 1..k : q[i] = q[j] => i = j} : k \in 0..n}

(* SpecExplorer: explorer queries over the result sets the store may deliver: rows
   of sensor_data in any order, some with equal times, values or sensor types. *)
ExplorerRows ==
    {[time |-> 1000000, sensorType |-> "tilt", value |-> 20],
     [time |-> 2000000, sensorType |-> "vibration", value |-> 20],
     [time |-> 2000400, sensorType |-> "tilt", value |-> 40],
     [time |-> 3000000, sensorType |-> "vibration", value |-> 10]}

SortFields == {"timestamp", "value", "sensorType"}

InitExplorer ==
    /\ InitIngest
    /\ prisma = NoRow
    /\ upstream \in SeqsOf(ExplorerRows, MaxRows)
    /\ explorer = NoExplorer
    /\ chart = NoChart
    /\ logs = NoLogs
    /\ records = NoRecords

NextExplorer ==
    \/ \E sortField \in SortFields, sortDirection \in {"asc", "desc"},
          limit \in 0..MaxLimit, offset \in 0..MaxOffset :
           ExplorerStart(sortField, sortDirection, limit, offset)
    \/ ExplorerRow
    \/ ExplorerError
    \/ ExplorerComplete
    \/ \E fetchOk \in BOOLEAN : ExplorerProxy(fetchOk)

SpecExplorer == InitExplorer /\ [][NextExplorer]_vars

(* SpecCharts: chart requests over the samples the store may hold: samples of the
   same millisecond, of the same second, of different seconds, with two and with
   three decimals. *)
ChartRows ==
    {[time |-> 1000000, sensorType |-> "tilt", value |-> 10],
     [time |-> 1000400, sensorType |-> "tilt", value |-> 20],
     [time |-> 1400000, sensorType |-> "tilt", value |-> 1004],
     [time |-> 1000000, sensorType |-> "vibration", value |-> 3000],
     [time |-> 1000700, sensorType |-> "vibration", value |-> 1000],
     [time |-> 2000000, sensorType |-> "vibration", value |-> 6]}

InitCharts ==
    /\ InitIngest
    /\ prisma = NoRow
    /\ upstream \in SeqsOf(ChartRows, MaxRows)
    /\ explorer = NoExplorer
    /\ chart = NoChart
    /\ logs = NoLogs
    /\ records = NoRecords

NextCharts == \E ok \in BOOLEAN : Charts(ok)

SpecCharts == InitCharts /\ [][NextCharts]_vars

(* SpecLogs: log requests over the result sets the store may deliver: events of
   one device in any order, two of them inside one millisecond, one without a
   severity tag. *)
LogRows ==
    {[type |-> "Hit", value |-> 0, time |-> 1000000, severity |-> "warning"],
     [type |-> "Abnormal tilt detected", value |-> 0, time |-> 2000000, severity |-> "warning"],
     [type |-> "Open with alarm", value |-> 0, time |-> 2000400, severity |-> "critical"],
     [type |-> "Lock", value |-> 0, time |-> 3000000, severity |-> Absent]}

NextLogs ==
    \E rows \in SeqsOf(LogRows, MaxRows), limit \in 0..MaxLimit, ok \in BOOLEAN :
        Logs(rows, limit, ok)

SpecLogs == Init /\ [][NextLogs]_vars

(* SpecReadOnly: the query endpoints called at any moment of an ingestion: between
   the messages and while a handler waits for a flush. The store delivers to the
   chart and explorer queries the sensor samples it holds, and to the logs query
   the events it holds of the device asked for. *)
SensorRowsOfStore ==
    LET IsSensorData(pt) == pt.m = "sensor_data"
        samples == SelectSeq(store, IsSensorData)
    IN  [i \in 1..Len(samples) |->
            [time |-> samples[i].time * 1000, sensorType |-> samples[i].tag,
             value |-> samples[i].value * 100]]

EventRowsOfStore(safeId) ==
    LET IsEventOf(pt) == pt.m = "event_log" /\ pt.safeId = safeId
        events == Reverse(SelectSeq(store, IsEventOf))
    IN  [i \in 1..Len(events) |->
            [type |-> events[i].tag, value |-> events[i].value,
             time |-> events[i].time * 1000, severity |-> events[i].severity]]

(* app.ts:534-563 and 712: queryApi.queryRows is given the samples of the store. *)
StoreDelivers ==
    /\ explorer.pc # "rows"
    /\ upstream # SensorRowsOfStore
    /\ upstream' = SensorRowsOfStore
    /\ UNCHANGED <<now, alertState, lastMessageTime, lastSafeStatus, store, proc, health,
                   lastStatusMsg, hitsInExcursion, prisma, explorer, chart, logs, records>>

ReadOnlySensorMsgs == {<<DEFAULT_SAFE_ID, "vibration", 35000>>}

NextReadOnly ==
    \/ SensorSteps({1}, {"mqtt"}, ReadOnlySensorMsgs, {TRUE}, MaxReadStore)
    \/ StatusSteps({1}, {"mqtt"}, {<<Absent, "open">>}, {TRUE}, MaxReadStore)
    \/ Tick(MaxReadTime)
    \/ Health(Absent)
    \/ StoreDelivers
    \/ Charts(TRUE)
    \/ Logs(EventRowsOfStore(DEFAULT_SAFE_ID), 1, TRUE)
    \/ GetRecords("sensor_data", Absent, 1, TRUE)
    \/ ExplorerStart("timestamp", "desc", 1, 0)
    \/ ExplorerRow
    \/ ExplorerComplete

SpecReadOnly == Init /\ [][NextReadOnly]_vars

(* SpecAlert: the alert state machine: samples below, at and above the thresholds
   of both alert kinds, a sample of a sensor type without alert and a second
   device, handled one after another. *)
AlertSensorMsgs ==
    Msgs3(({DEFAULT_SAFE_ID} \X (({"vibration"} \X VibrationValues)
                                  \cup ({"tilt"} \X {35, 40})
                                  \cup ({"temperature"} \X OtherValues)))
          \cup ({"safe-002"} \X ({"vibration"} \X {35000})))

NextAlert ==
    \/ SensorSteps({1}, {"mqtt"}, AlertSensorMsgs, {TRUE}, MaxAlertStore)
    \/ Tick(MaxTime)

SpecAlert == Init /\ [][NextAlert]_vars

(* SpecLive: the sensor handler with the clock that keeps running.  The flushes
   are answers of InfluxDB: nothing obliges them to come, so the only step that is
   sure to be taken is the step of the clock.  The handler has no step of its own
   between its awaits (there is no timer in app.ts:127-184 and 235-244). *)
LiveSensorMsgs == Msgs3({DEFAULT_SAFE_ID} \X ({"vibration"} \X {1000, 35000}))

NextLive ==
    \/ SensorSteps({1}, {"mqtt", "rest"}, LiveSensorMsgs, BOOLEAN, MaxLiveStore)
    \/ Tick(MaxLiveTime)

SpecLive == Init /\ [][NextLive]_vars /\ WF_vars(Tick(MaxLiveTime))

-----------------------------------------------------------------------------
(* Readings of the store used by the properties *)

(* The indices of the points of the store that satisfy Test. *)
Indices(Test(_)) == {i \in 1..Len(store) : Test(store[i])}

Max(S) == CHOOSE x \in S : \A y \in S : y <= x

IsSample(pt, safeId, kind) ==
    pt.m = "sensor_data" /\ pt.safeId = safeId /\ pt.tag = kind

IsAlertEvent(pt, safeId, kind) ==
    pt.m = "event_log" /\ pt.safeId = safeId /\ pt.tag = AlertEventType(kind)

Finished(h) == proc[h].pc \in {"done", "failed"}

-----------------------------------------------------------------------------
(* C1: handled one after another, the vibration samples of a device cause at most
   one "Hit" event per excursion: no Hit is appended while the alert entry is
   triggered, so at most one Hit is appended between two resets of the entry, and
   between two Hit events of a device the store holds a vibration sample of that
   device that is not above the threshold. *)
C1_OneHitPerExcursion ==
    \A s \in SafeIds :
        /\ hitsInExcursion[<<s, "vibration">>] <= 1
        /\ \A i, j \in 1..Len(store) :
               (/\ i < j
                /\ IsAlertEvent(store[i], s, "vibration")
                /\ IsAlertEvent(store[j], s, "vibration"))
               => \E k \in (i + 1)..(j - 1) :
                      /\ IsSample(store[k], s, "vibration")
                      /\ ~IsOverThreshold("vibration", store[k].value)

(* A Hit was appended for a device, and a later above-threshold sample of the same
   excursion has been handled to the end without a second event. *)
C1_Witness ==
    \E i, j \in 1..Len(store) :
        /\ i < j
        /\ IsAlertEvent(store[i], DEFAULT_SAFE_ID, "vibration")
        /\ IsSample(store[j], DEFAULT_SAFE_ID, "vibration")
        /\ IsOverThreshold("vibration", store[j].value)
        /\ j = Len(store)
        /\ proc[1].pc = "done" /\ proc[1].kind = "sensor" /\ ~proc[1].emitted
        /\ hitsInExcursion[<<DEFAULT_SAFE_ID, "vibration">>] = 1

-----------------------------------------------------------------------------
(* The excursion of (safeId, kind) that emitted the last event of that kind has
   cleared more than the cooldown before the time t and has not been followed by
   another crossing: after the last event the store holds a sample of the kind
   that is not above the threshold and is more than ALERT_COOLDOWN_MS older than
   t, and no sample above. *)
ClearedAndCooled(safeId, kind, t) ==
    LET IsEv(pt) == IsAlertEvent(pt, safeId, kind)
        events == Indices(IsEv)
    IN  /\ events # {}
        /\ \E j \in (Max(events) + 1)..Len(store) :
               /\ IsSample(store[j], safeId, kind)
               /\ ~IsOverThreshold(kind, store[j].value)
               /\ t - store[j].time > ALERT_COOLDOWN_MS
        /\ \A j \in (Max(events) + 1)..Len(store) :
               IsSample(store[j], safeId, kind) => ~IsOverThreshold(kind, store[j].value)

(* The handler h evaluates the alert of its sample in this step (the flush of the
   sample has resolved). *)
EvaluatesAlert(h) ==
    /\ proc[h].kind = "sensor"
    /\ proc[h].pc = "flushRecord"
    /\ proc[h].tag \in AlertKinds
    /\ proc'[h].pc \in {"flushEvent", "done"}

(* C2: once an excursion has cleared and more than ALERT_COOLDOWN_MS has elapsed,
   the next above-threshold sample of that device and kind (one received after
   the cooldown) emits a new event (createEventLog is called), whatever the timing
   of the samples. *)
C2_NewCrossingEmits ==
    [][\A h \in Handlers :
           (/\ EvaluatesAlert(h)
            /\ IsOverThreshold(proc[h].tag, proc[h].value)
            /\ ClearedAndCooled(proc[h].safeId, proc[h].tag, proc[h].point.time))
           => proc'[h].pc = "flushEvent"]_vars

(* C5: an alert entry goes from triggered to not triggered only when no
   above-threshold sample of its device and kind was observed during the last
   ALERT_COOLDOWN_MS. *)
C5_ResetOnlyAfterQuietCooldown ==
    [][\A k \in AlertKeys :
           (alertState[k].triggered /\ ~alertState'[k].triggered)
           => \A i \in 1..Len(store') :
                  (IsSample(store'[i], k[1], k[2])
                       /\ IsOverThreshold(k[2], store'[i].value))
                  => now - store'[i].time >= ALERT_COOLDOWN_MS]_vars

(* C6: when the append of the event of a Normal -> Triggered transition has failed,
   the alert entry of the sample's device and kind is triggered. *)
C6_TransitionCommittedOnAppendFailure ==
    \A h \in Handlers :
        (proc[h].kind = "sensor" /\ proc[h].pc = "failed" /\ proc[h].failedAt = "event")
        => AlertGet(<<proc[h].safeId, proc[h].tag>>).triggered

-----------------------------------------------------------------------------
IsStatusRecord(pt, safeId) == pt.m = "safe_status" /\ pt.safeId = safeId

(* The status of the last status record of the device persisted before the one of
   the handler h (Undefined when there is none).  Handled one after another, the
   record of h, once persisted, is the last status record of its device. *)
PrevPersistedStatus(h) ==
    LET IsRec(pt) == IsStatusRecord(pt, proc[h].safeId)
        recs == Indices(IsRec)
        earlier == IF proc[h].failedAt = "record" THEN recs ELSE recs \ {Max(recs)}
    IN  IF earlier = {} THEN Undefined ELSE store[Max(earlier)].tag

(* A valid status message has been handled to its end by h. *)
StatusHandled(h) ==
    proc[h].kind = "status" /\ Finished(h) /\ proc[h].failedAt # "parse"

(* C3, as stated: for status messages handled one after another, an event is
   appended for a message if and only if its status differs from the status of
   the message received just before it for that device. *)
C3_EventIffDiffersFromPrevious ==
    \A h \in Handlers :
        StatusHandled(h) => (proc[h].emitted <=> proc[h].tag # proc[h].prevMsg)

(* C3, amended: for status messages handled one after another, an event is
   appended for a message if and only if its two persistence writes (the status
   record, the event) succeed and its status differs from the status of the last
   earlier message of the device whose status record was persisted (none counting
   as a change). *)
C3_EventIffDiffersFromPersisted ==
    \A h \in Handlers :
        StatusHandled(h) =>
            (proc[h].emitted <=>
                (proc[h].failedAt = "none" /\ proc[h].tag # PrevPersistedStatus(h)))

(* A status repeated after persisted messages has been handled without an event,
   after an earlier change of the same device had appended one. *)
C3_Witness ==
    /\ StatusHandled(1)
    /\ proc[1].failedAt = "none"
    /\ ~proc[1].emitted
    /\ proc[1].tag = PrevPersistedStatus(1)
    /\ \E i \in 1..Len(store) :
           store[i].m = "event_log" /\ store[i].safeId = proc[1].safeId

(* C7: when the append of the status-change event fails, the cache already holds
   the new status: from the call of createEventLog on, and after its failure,
   lastSafeStatus of the device is the status of the message; a message whose
   status equals the cached one calls no createEventLog; and the cache changes
   only to the status of a message whose change is detected in that step. *)
C7_CacheCommittedBeforeEvent ==
    /\ [](\A h \in Handlers :
            (/\ proc[h].kind = "status"
             /\ \/ proc[h].pc = "flushEvent"
                \/ proc[h].pc = "failed" /\ proc[h].failedAt = "event")
            => lastSafeStatus[proc[h].safeId] = proc[h].tag)
    /\ [][\A h \in Handlers :
            (/\ proc[h].kind = "status"
             /\ proc[h].pc = "flushRecord"
             /\ proc'[h].pc \in {"flushEvent", "done"})
            => /\ (lastSafeStatus[proc[h].safeId] = proc[h].tag) => proc'[h].pc = "done"
               /\ \A s \in SafeIds :
                      lastSafeStatus'[s] # lastSafeStatus[s]
                      => /\ s = proc[h].safeId
                         /\ lastSafeStatus'[s] = proc[h].tag
                         /\ proc'[h].pc = "flushEvent"]_vars

(* The append of a status-change event has failed after an earlier status of the
   device had been cached. *)
C7_Witness ==
    /\ proc[1].kind = "status"
    /\ proc[1].pc = "failed"
    /\ proc[1].failedAt = "event"
    /\ proc[1].prevMsg # Undefined
    /\ proc[1].prevMsg # proc[1].tag
    /\ lastSafeStatus[proc[1].safeId] = proc[1].tag

-----------------------------------------------------------------------------
(* C4: when above-threshold samples of one device and kind are handled
   concurrently, the read of the alert entry, the decision, the append of the event
   and the write of the entry act as one step: one event per excursion. *)
C4_OneEventPerConcurrentExcursion ==
    \A k \in AlertKeys : hitsInExcursion[k] <= 1

(* The status records of a device with the greatest timestamp. *)
LatestStatusRecords(safeId, st) ==
    {i \in 1..Len(st) :
        /\ IsStatusRecord(st[i], safeId)
        /\ \A j \in 1..Len(st) : IsStatusRecord(st[j], safeId) => st[j].time <= st[i].time}

(* C8: once every status handler in flight has completed, lastSafeStatus of a
   device is the status of its persisted status record with the greatest
   timestamp; and the cache never changes to a status other than that of the
   record with the greatest timestamp. *)
C8_CacheIsLatestRecord ==
    /\ []((\A h \in Handlers : Free(h)) =>
            \A s \in SafeIds :
                LatestStatusRecords(s, store) # {} =>
                    \E i \in LatestStatusRecords(s, store) : lastSafeStatus[s] = store[i].tag)
    /\ [][\A s \in SafeIds :
            lastSafeStatus'[s] # lastSafeStatus[s] =>
                \E i \in LatestStatusRecords(s, store') : lastSafeStatus'[s] = store'[i].tag]_vars

(* C9: every valid message of any kind sets the heartbeat of its device to the
   time it is ingested. *)
C9_HeartbeatOnEveryIngest ==
    [][\A h \in Handlers :
           (Free(h) /\ proc'[h].pc = "flushRecord")
           => lastMessageTime'[proc'[h].safeId] = now]_vars

(* C10: for a device with a heartbeat, the health status is OK up to an age of
   5000 ms, WARN above 5000 ms and up to 30000 ms, ERROR above 30000 ms. *)
C10_HealthThresholds ==
    (health.status # "none" /\ health.timeDiff # Null) =>
        /\ health.timeDiff >= 0
        /\ health.timeDiff <= 5000 => health.status = "OK"
        /\ (health.timeDiff > 5000 /\ health.timeDiff <= 30000) => health.status = "WARN"
        /\ health.timeDiff > 30000 => health.status = "ERROR"
        /\ health.timeDiff = 40000 => health.status = "ERROR"

(* A health request has been answered for a heartbeat exactly 30000 ms old. *)
C10_Witness ==
    health.timeDiff = 30000 /\ health.status = "WARN" /\ health.lastHeartbeat = now - 30000

(* C11: a health request for a device that has no heartbeat entry is answered
   (the computation does not fail) and classifies the device as WARN. *)
C11_NoHeartbeatIsWarn ==
    (health.status # "none" /\ health.timeDiff = Null) => health.status = "WARN"

(* C12: in every backend variant the health status is one of OK, WARN, ERROR and
   is a function of the age of the last telemetry only: with the same latest
   sample and the same clock, every lock status gives the same health status. *)
C12_HealthStatusByRecencyOnly ==
    health.status # "none" =>
        /\ health.status \in {"OK", "WARN", "ERROR"}
        /\ \A s1, s2 \in Statuses \cup {Undefined} :
               PrismaHealthStatus(s1, prisma.sensorAt, now)
                   = PrismaHealthStatus(s2, prisma.sensorAt, now)

(* C13: a message or request that is not valid JSON or fails schema validation is
   rejected on its own: the step that rejects it appends nothing and leaves
   alertState, lastSafeStatus and lastMessageTime unchanged, the handler is free
   for the next message, and nothing a later message reads has changed. *)
C13_InvalidMessageIsLocal ==
    [][\A h \in Handlers :
           (proc'[h].pc = "failed" /\ proc'[h].failedAt = "parse") =>
               /\ store' = store
               /\ alertState' = alertState
               /\ lastSafeStatus' = lastSafeStatus
               /\ lastMessageTime' = lastMessageTime
               /\ lastStatusMsg' = lastStatusMsg
               /\ hitsInExcursion' = hitsInExcursion
               /\ Free(h)']_vars

(* An invalid message has been rejected while the device has persisted samples, a
   triggered alert and a heartbeat older than the rejection. *)
C13_Witness ==
    /\ proc[1].pc = "failed" /\ proc[1].failedAt = "parse"
    /\ Len(store) >= 2
    /\ alertState[<<"safe-001", "vibration">>].triggered
    /\ lastMessageTime["safe-001"] # Null
    /\ lastMessageTime["safe-001"] < now

(* C14: a REST ingestion request whose persistence append failed is answered with
   a 5xx status, and a 4xx status is answered only to a request that failed
   validation. *)
C14_AppendFailureIs5xx ==
    \A h \in Handlers :
        (proc[h].via = "rest" /\ proc[h].pc = "failed") =>
            /\ proc[h].failedAt \in {"record", "event"} =>
                   RestStatusCode(proc[h]) \in 500..599
            /\ RestStatusCode(proc[h]) \in 400..499 => proc[h].failedAt = "parse"

-----------------------------------------------------------------------------
(* Readings of the explorer used by the properties *)

Min2(a, b) == IF a < b THEN a ELSE b

(* The explorer has answered the query it was given. *)
ExplorerAnswered == explorer.pc \in {"done", "answered"}

(* The position of a record in the requested order: its sort key, a greater key
   standing later when ascending and earlier when descending.  The key of a
   timestamp is its Date, the key of a sensor type its place in the alphabet. *)
SortKey(r, sortField) ==
    IF sortField = "timestamp" THEN r.timestamp \div 1000
    ELSE IF sortField = "value" THEN r.value
    ELSE IF r.sensorType = "tilt" THEN 1 ELSE 2

RanksBefore(a, b, sortField, sortDirection) ==
    IF sortDirection = "asc" THEN SortKey(a, sortField) < SortKey(b, sortField)
    ELSE SortKey(a, sortField) > SortKey(b, sortField)

(* The records of the result set, as the explorer formats them. *)
Matching == {FormatSensorRow(upstream[i]) : i \in 1..Len(upstream)}

(* C15: a successful explorer query over N matching records answers total = N and
   the page of the records ranked offset+1 .. min(offset+limit, N) in the
   requested order: the page has that many records, all different records of the
   result set, and the record in place j has at most offset+j-1 records ranked
   before it and at least offset+j records not ranked after it. *)
C15_PageIsRankedSlice ==
    (ExplorerAnswered /\ explorer.response.success) =>
        LET N == Len(upstream)
            page == explorer.response.data
            f == explorer.sortField
            d == explorer.sortDirection
            first == explorer.offset
            last == Min2(explorer.offset + explorer.limit, N)
        IN  /\ explorer.response.total = N
            /\ Len(page) = IF last > first THEN last - first ELSE 0
            /\ \A j \in 1..Len(page) : page[j] \in Matching
            /\ \A i, j \in 1..Len(page) : page[i] = page[j] => i = j
            /\ \A j \in 1..Len(page) :
                   /\ Cardinality({r \in Matching : RanksBefore(r, page[j], f, d)})
                          <= first + j - 1
                   /\ Cardinality({r \in Matching : ~RanksBefore(page[j], r, f, d)})
                          >= first + j

(* A query over three records with limit 1 and offset 1 has answered the one
   record ranked second by value, with total 3. *)
C15_Witness ==
    /\ ExplorerAnswered /\ explorer.response.success
    /\ Len(upstream) = 3
    /\ explorer.sortField = "value" /\ explorer.sortDirection = "desc"
    /\ explorer.limit = 1 /\ explorer.offset = 1
    /\ Len(explorer.response.data) = 1
    /\ explorer.response.data[1].value = 20
    /\ explorer.response.total = 3

(* The orders in which the store may deliver the rows of the result set. *)
DeliveryOrders(rows) ==
    {[i \in 1..Len(rows) |-> rows[q[i]]] :
        q \in {q \in [1..Len(rows) -> 1..Len(rows)] :
                  \A i, j \in 1..Len(rows) : q[i] = q[j] => i = j}}

FormatAll(rows) == [i \in 1..Len(rows) |-> FormatSensorRow(rows[i])]

(* C16: the page of a successful explorer query is the same for every order in
   which the store delivers the rows of the result set, records with equal values
   in the sort field included. *)
C16_PageIndependentOfUpstreamOrder ==
    (ExplorerAnswered /\ explorer.response.success) =>
        \A rows \in DeliveryOrders(upstream) :
            ExplorerPage(FormatAll(rows), explorer.sortField, explorer.sortDirection,
                         explorer.limit, explorer.offset) = explorer.response.data

(* C17: a failed explorer query is answered success = false with an empty page and
   total = 0, by the backend and by the dashboard route; an answer that carries
   rows is the answer of a query that completed. *)
C17_FailureAnswersEmptyPage ==
    /\ (ExplorerAnswered /\ explorer.response.code # 200) =>
           /\ ~explorer.response.success
           /\ explorer.response.data = <<>>
           /\ explorer.response.total = 0
    /\ (ExplorerAnswered /\ explorer.response.data # <<>>) =>
           /\ explorer.response.success
           /\ Len(explorer.results) = Len(upstream)
    /\ (explorer.pc = "answered" /\ ~explorer.proxied.success) =>
           /\ explorer.proxied.data = <<>>
           /\ explorer.proxied.total = 0
    /\ (explorer.pc = "answered" /\ explorer.proxied.data # <<>>) =>
           /\ explorer.response.success
           /\ explorer.proxied = explorer.response

(* The store has reported an error after it delivered two rows, and the dashboard
   route has passed the empty error result on. *)
C17_Witness ==
    /\ explorer.pc = "answered"
    /\ explorer.response.code = 500
    /\ Len(explorer.results) = 2
    /\ Len(upstream) = 3
    /\ explorer.proxied.success = FALSE
    /\ explorer.proxied.total = 0

-----------------------------------------------------------------------------
(* Readings of the chart used by the properties *)

(* The samples of a field that fall into the bucket of a chart point. *)
SamplesAt(sensorType, t) ==
    {i \in 1..Len(upstream) :
        upstream[i].sensorType = sensorType /\ upstream[i].time \div 1000 = t}

(* A value in thousandths to the nearest hundredth, the half going up. *)
NearestHundredth(v) ==
    CHOOSE h \in {10 * k : k \in 0..1000} : h - 5 <= v /\ v < h + 5

RECURSIVE RawSum(_)
RawSum(S) ==
    IF S = {} THEN 0
    ELSE LET i == CHOOSE i \in S : TRUE
         IN  upstream[i].value + RawSum(S \ {i})

RECURSIVE RoundedSum(_)
RoundedSum(S) ==
    IF S = {} THEN 0
    ELSE LET i == CHOOSE i \in S : TRUE
         IN  NearestHundredth(upstream[i].value) + RoundedSum(S \ {i})

ChartFields == {"tilt", "vibration"}

ChartValue(pt, sensorType) == IF sensorType = "tilt" THEN pt.tilt ELSE pt.vib

Abs(x) == IF x < 0 THEN -x ELSE x

(* C18 as stated: for every chart point and each field, the value is the
   arithmetic mean of the samples of the field in the bucket when there is one,
   and null (not 0) when there is none. *)
C18_MeanOfSamplesOrNull ==
    chart.code = 200 =>
        \A j \in 1..Len(chart.points), f \in ChartFields :
            LET S == SamplesAt(f, chart.points[j].t)
                v == ChartValue(chart.points[j], f)
            IN  /\ S = {} => v = NullValue
                /\ S # {} => /\ v.den > 0
                             /\ v.num * Cardinality(S) = v.den * RawSum(S)

(* C18 amended: the value is the arithmetic mean of the samples of the field in
   the bucket, each sample taken to the nearest hundredth, when there is at least
   one sample, and null (not 0) when there is none; every sample is in the bucket
   of one point. *)
C18_MeanOfRoundedSamplesOrNull ==
    chart.code = 200 =>
        /\ \A j \in 1..Len(chart.points), f \in ChartFields :
               LET S == SamplesAt(f, chart.points[j].t)
                   v == ChartValue(chart.points[j], f)
               IN  /\ S = {} => v = NullValue /\ v # [num |-> 0, den |-> 1]
                   /\ S # {} => /\ v.den > 0
                                /\ v.num * Cardinality(S) = v.den * RoundedSum(S)
        /\ \A i \in 1..Len(upstream) :
               Cardinality({j \in 1..Len(chart.points) :
                               chart.points[j].t = upstream[i].time \div 1000}) = 1

(* A chart has a point whose bucket holds the vibration samples 1.0 and 3.0 and
   no tilt sample: vib is 2.0 and tilt is null. *)
C18_Witness ==
    /\ chart.code = 200
    /\ \E j \in 1..Len(chart.points) :
           /\ chart.points[j].tilt = NullValue
           /\ chart.points[j].vib.den = 2
           /\ chart.points[j].vib.num = 2000 * chart.points[j].vib.den
           /\ {upstream[i].value : i \in SamplesAt("vibration", chart.points[j].t)}
                  = {1000, 3000}

(* C19: every averaged value of the chart that is not null is the mean of the
   samples of its bucket rounded to 2 decimal places: a whole number of
   hundredths, at most half a hundredth from the mean. *)
C19_MeanRoundedTo2Decimals ==
    chart.code = 200 =>
        \A j \in 1..Len(chart.points), f \in ChartFields :
            LET S == SamplesAt(f, chart.points[j].t)
                v == ChartValue(chart.points[j], f)
            IN  v # NullValue =>
                    \E h \in {10 * k : k \in 0..1000} :
                        /\ v.num = h * v.den
                        /\ Abs(RawSum(S) - h * Cardinality(S)) <= 5 * Cardinality(S)

(* C20: the buckets of the chart are seconds: the samples of one second are in one
   point, so no two points lie in the same second, every sample has the point of
   its second, and the points are in ascending time. *)
C20_OnePointPerSecond ==
    chart.code = 200 =>
        /\ \A a, b \in 1..Len(chart.points) :
               a < b => /\ chart.points[a].t < chart.points[b].t
                        /\ chart.points[a].t \div 1000 # chart.points[b].t \div 1000
        /\ \A i \in 1..Len(upstream) :
               \E j \in 1..Len(chart.points) :
                   chart.points[j].t \div 1000 = upstream[i].time \div 1000000

(* C21: no ingestion operation blocks for ever: a handler that awaits a flush
   eventually finishes (with the answer of the store or with a timeout error), also
   when the store never answers. *)
C21_HandlerEventuallyFinishes ==
    \A h \in Handlers :
        (proc[h].pc \in {"flushRecord", "flushEvent"}) ~> Finished(h)

-----------------------------------------------------------------------------
(* Readings of the alert state machine used by the properties *)

(* The value is strictly greater than the threshold of its alert kind. *)
StrictlyAbove(sensorType, value) ==
    \/ sensorType = "vibration" /\ value > 30000
    \/ sensorType = "tilt" /\ value > 35

(* The event of an alert kind for a device, written at the time t. *)
WarningEvent(safeId, sensorType, t) ==
    [m |-> "event_log", safeId |-> safeId,
     tag |-> IF sensorType = "vibration" THEN "Hit" ELSE "Abnormal tilt detected",
     value |-> 0, severity |-> "warning", time |-> t]

(* C22: a sample whose alert is evaluated starts the Normal -> Triggered transition
   exactly when its entry is not triggered and its value is strictly greater than
   the threshold (a value equal to the threshold does not); the transition writes
   one event of severity "warning" of the kind's type for the sample's device, and
   when the event is appended the entry becomes triggered with lastTriggered the
   current time; an entry becomes triggered in no other way. *)
C22_TransitionOnStrictCrossing ==
    [][/\ \A h \in Handlers :
              LET p == proc[h]
                  key == <<p.safeId, p.tag>>
              IN  /\ EvaluatesAlert(h) =>
                         (proc'[h].pc = "flushEvent"
                              <=> (~alertState[key].triggered
                                   /\ StrictlyAbove(p.tag, p.value)))
                  /\ (EvaluatesAlert(h) /\ proc'[h].pc = "flushEvent") =>
                         proc'[h].point = WarningEvent(p.safeId, p.tag, now)
                  /\ (p.kind = "sensor" /\ p.pc = "flushEvent" /\ store' # store) =>
                         /\ store' = Append(store, p.point)
                         /\ alertState'[key] = [triggered |-> TRUE, lastTriggered |-> now,
                                                present |-> TRUE]
                         /\ ~alertState[key].triggered
       /\ \A k \in AlertKeys :
              (alertState'[k].triggered /\ ~alertState[k].triggered) =>
                  \E h \in Handlers :
                      /\ proc[h].kind = "sensor" /\ proc[h].pc = "flushEvent"
                      /\ <<proc[h].safeId, proc[h].tag>> = k
                      /\ StrictlyAbove(proc[h].tag, proc[h].value)
                      /\ store' = Append(store, WarningEvent(k[1], k[2], proc[h].point.time))
      ]_vars

(* A vibration sample equal to the threshold was handled without an event, the
   next sample, above the threshold, appended one Hit of severity warning, and the
   entry is triggered since the current time. *)
C22_Witness ==
    /\ Len(store) = 3
    /\ IsSample(store[1], DEFAULT_SAFE_ID, "vibration") /\ store[1].value = 30000
    /\ IsSample(store[2], DEFAULT_SAFE_ID, "vibration") /\ store[2].value = 35000
    /\ store[3].m = "event_log" /\ store[3].tag = "Hit" /\ store[3].severity = "warning"
    /\ store[3].safeId = DEFAULT_SAFE_ID
    /\ alertState[<<DEFAULT_SAFE_ID, "vibration">>].triggered
    /\ alertState[<<DEFAULT_SAFE_ID, "vibration">>].lastTriggered = now
    /\ now > 0

(* C23: recovery is silent: a sample that is not above the threshold never calls
   createEventLog; the only point its handler appends is the sample itself, and
   the only change it makes to the alert state is the reset of a triggered entry
   to triggered = false, lastTriggered = null. *)
C23_RecoveryIsSilent ==
    /\ [](\A h \in Handlers :
              (proc[h].kind = "sensor" /\ ~StrictlyAbove(proc[h].tag, proc[h].value)) =>
                  (proc[h].pc # "flushEvent" /\ ~proc[h].emitted))
    /\ [][\A h \in Handlers :
              LET p == proc[h]
              IN  (/\ p.kind = "sensor" /\ p.pc = "flushRecord"
                   /\ ~StrictlyAbove(p.tag, p.value)) =>
                      /\ proc'[h].pc # "flushEvent"
                      /\ \/ store' = store
                         \/ /\ store' = Append(store, p.point)
                            /\ p.point.m = "sensor_data"
                      /\ \A k \in AlertKeys :
                             alertState'[k] # alertState[k] =>
                                 /\ alertState[k].triggered
                                 /\ alertState'[k] = [triggered |-> FALSE,
                                                      lastTriggered |-> Null,
                                                      present |-> TRUE]]_vars

(* After a Hit, a low vibration sample handled after the cooldown has reset the
   entry: the store holds the one Hit and the low sample behind it, and nothing
   else was appended. *)
C23_Witness ==
    /\ Len(store) = 3
    /\ store[2].m = "event_log" /\ store[2].tag = "Hit"
    /\ IsSample(store[3], DEFAULT_SAFE_ID, "vibration") /\ store[3].value = 1000
    /\ alertState[<<DEFAULT_SAFE_ID, "vibration">>]
           = [triggered |-> FALSE, lastTriggered |-> Null, present |-> TRUE]
    /\ proc[1].pc = "done" /\ proc[1].value = 1000 /\ ~proc[1].emitted

(* C24: the alert state is independent per (device, alert kind): a step changes at
   most one alertState entry, and only the entry keyed by the device and the sensor
   type of the sample whose handler takes the step; a sample of a sensor type
   without alert changes no entry and calls createEventLog never. *)
C24_AlertStatePerDeviceAndKind ==
    /\ [](\A h \in Handlers :
              (proc[h].kind = "sensor" /\ proc[h].tag \notin AlertKinds) =>
                  (proc[h].pc # "flushEvent" /\ ~proc[h].emitted))
    /\ [][/\ Cardinality({k \in AlertKeys : alertState'[k] # alertState[k]}) <= 1
          /\ \A k \in AlertKeys :
                 alertState'[k] # alertState[k] =>
                     \E h \in Handlers :
                         /\ proc[h].kind = "sensor"
                         /\ proc'[h] # proc[h]
                         /\ proc[h].safeId = k[1]
                         /\ proc[h].tag = k[2]
          /\ \A h \in Handlers :
                 (/\ proc[h].kind = "sensor" /\ proc[h].tag \notin AlertKinds
                  /\ proc'[h] # proc[h]) =>
                     alertState' = alertState]_vars

(* The vibration entry of safe-001 is triggered; a temperature sample of the same
   device has been persisted; the tilt entry of the device and the entries of the
   other device have never been written. *)
C24_Witness ==
    /\ alertState[<<DEFAULT_SAFE_ID, "vibration">>].triggered
    /\ alertState[<<DEFAULT_SAFE_ID, "tilt">>] = NoEntry
    /\ alertState[<<"safe-002", "vibration">>] = NoEntry
    /\ alertState[<<"safe-002", "tilt">>] = NoEntry
    /\ Len(store) = 3
    /\ IsSample(store[3], DEFAULT_SAFE_ID, "temperature")
    /\ proc[1].pc = "done" /\ proc[1].tag = "temperature"

(* The point pt is a cause of the event ev: an above-threshold sample of the
   event's device and alert kind, or a status record of the event's device whose
   status has the event's type. *)
IsCauseOf(pt, ev) ==
    /\ pt.safeId = ev.safeId
    /\ \/ /\ pt.m = "sensor_data"
          /\ StrictlyAbove(pt.tag, pt.value)
          /\ ev = WarningEvent(pt.safeId, pt.tag, ev.time)
       \/ /\ pt.m = "safe_status"
          /\ ev.tag = (IF pt.tag = "open" THEN "Open with alarm"
                       ELSE IF pt.tag = "unlock" THEN "Unlock" ELSE "Lock")

(* C25: the record that causes an event is persisted before the event is written:
   an event that is being written or is in the store has a cause earlier in the
   store, and the timestamp of the event is at or after the timestamp of that
   cause. *)
C25_CauseBeforeEvent ==
    /\ \A i \in 1..Len(store) :
           store[i].m = "event_log" =>
               \E j \in 1..(i - 1) :
                   IsCauseOf(store[j], store[i]) /\ store[j].time <= store[i].time
    /\ \A h \in Handlers :
           proc[h].pc = "flushEvent" =>
               \E j \in 1..Len(store) :
                   /\ IsCauseOf(store[j], proc[h].point)
                   /\ store[j].time <= proc[h].point.time

(* A Hit is in the store behind the sample that caused it, with a later
   timestamp. *)
C25_Witness ==
    /\ Len(store) = 2
    /\ IsSample(store[1], DEFAULT_SAFE_ID, "vibration") /\ store[1].value = 35000
    /\ store[2].m = "event_log" /\ store[2].tag = "Hit"
    /\ store[1].time < store[2].time

(* C28: in every reachable state and for every alert state entry, the entry is
   triggered exactly when it carries a last-triggered timestamp. *)
C28_TriggeredIffTimestamp ==
    \A k \in DOMAIN alertState :
        alertState[k].triggered <=> (alertState[k].lastTriggered # Null)

(* The tilt entry of the default device was triggered after time had advanced,
   while its vibration entry is still in the state it started in. *)
C28_Witness ==
    /\ alertState[AlertKey(DEFAULT_SAFE_ID, "tilt")].triggered
    /\ alertState[AlertKey(DEFAULT_SAFE_ID, "tilt")].lastTriggered = Quantum
    /\ ~alertState[AlertKey(DEFAULT_SAFE_ID, "vibration")].triggered

(* C30: when the flush of a sensor sample rejects, the handler of that sample
   ends as failed at the record write without evaluating the alert: the step
   appends nothing, leaves every alert state entry unchanged and the handler has
   emitted no event, whatever the value of the sample. *)
C30_FailedSampleSkipsAlert ==
    /\ [][\A h \in Handlers :
              (/\ proc[h].kind = "sensor"
               /\ proc[h].pc = "flushRecord"
               /\ proc'[h] # proc[h]
               /\ store' = store)
              => /\ proc'[h].pc = "failed"
                 /\ proc'[h].failedAt = "record"
                 /\ ~proc'[h].emitted
                 /\ alertState' = alertState]_vars
    /\ [](\A h \in Handlers :
              (proc[h].kind = "sensor" /\ proc[h].pc = "failed"
                   /\ proc[h].failedAt = "record")
              => ~proc[h].emitted)

(* The flush of a vibration sample above the threshold was rejected while the
   entry of its key was not triggered: nothing is stored and the entry is as it
   was. *)
C30_Witness ==
    \E h \in Handlers :
        /\ proc[h].kind = "sensor"
        /\ proc[h].pc = "failed"
        /\ proc[h].failedAt = "record"
        /\ proc[h].tag = "vibration"
        /\ StrictlyAbove(proc[h].tag, proc[h].value)
        /\ ~alertState[AlertKey(proc[h].safeId, "vibration")].triggered
        /\ store = <<>>

(* The handler h has taken the branch of a changed status: it is inside
   createEventLog, or createEventLog has returned or thrown. *)
TookChangeBranch(h) ==
    \/ proc[h].pc = "flushEvent"
    \/ proc[h].emitted
    \/ proc[h].pc = "failed" /\ proc[h].failedAt = "event"

(* Both handler slots carry a status message of the same device with the same
   status. *)
SameStatusInBoth ==
    /\ \A h \in Handlers : proc[h].kind = "status" /\ proc[h].failedAt # "parse"
    /\ proc[1].safeId = proc[2].safeId
    /\ proc[1].tag = proc[2].tag

(* C29: when two status messages with the same new status of the same device are
   handled concurrently, at most one of the two handlers ever takes the branch of
   a changed status; once both have ended and the record of at least one was
   flushed, exactly one has taken it, and when both returned, exactly one
   status-change event is in the store. *)
C29_OneEventForSameStatus ==
    SameStatusInBoth =>
        /\ Cardinality({h \in Handlers : TookChangeBranch(h)}) <= 1
        /\ ((\A h \in Handlers : Finished(h))
                /\ (\E h \in Handlers : proc[h].failedAt # "record"))
            => Cardinality({h \in Handlers : TookChangeBranch(h)}) = 1
        /\ (\A h \in Handlers : proc[h].pc = "done")
            => Cardinality({i \in 1..Len(store) : store[i].m = "event_log"}) = 1

(* Both records of "open" were flushed before either handler compared, both
   handlers returned, and the store holds the two records and one event. *)
C29_Witness ==
    /\ SameStatusInBoth
    /\ \A h \in Handlers : proc[h].pc = "done" /\ proc[h].tag = "open"
    /\ Len(store) = 3
    /\ store[1].m = "safe_status" /\ store[2].m = "safe_status"
    /\ store[3].m = "event_log" /\ store[3].tag = "Open with alarm"
    /\ lastSafeStatus[DEFAULT_SAFE_ID] = "open"

(* C27: a completed logs request answers the min(limit, N) most recent of the N
   delivered events, newest first, whatever the order in which the store
   delivered them. *)
C27_MostRecentNewestFirst ==
    logs.code = 200 =>
        LET rows == {logs.results[i] : i \in 1..Len(logs.results)}
            page == {logs.data[i] : i \in 1..Len(logs.data)}
        IN  /\ Len(logs.data) = Min2(logs.limit, Len(logs.results))
            /\ page \subseteq rows
            /\ \A a, b \in 1..Len(logs.data) :
                   a < b => logs.data[a].timestamp >= logs.data[b].timestamp
            /\ \A r \in rows \ page, d \in page : r.timestamp <= d.timestamp

(* The state the ingestion works on: the caches, the persisted points and the
   handler invocations. *)
ingestVars == <<alertState, lastSafeStatus, lastMessageTime, store, proc>>

(* The responses of the query endpoints and the rows delivered to them. *)
responseVars == <<health, chart, logs, records, explorer, upstream>>

(* C26: the query endpoints are read-only: a step of GET /api/health, /api/charts,
   /api/logs, /api/explorer or of a GET of stored records changes no entry of
   alertState, lastSafeStatus or lastMessageTime, appends nothing to the store and
   moves no handler, at whatever moment of an ingestion it runs; and a step of the
   ingestion changes no response. *)
C26_QueriesAreReadOnly ==
    [][/\ responseVars' # responseVars => ingestVars' = ingestVars
       /\ ingestVars' # ingestVars => responseVars' = responseVars]_vars

(* Every query endpoint has answered from the store while the handler of a
   vibration sample is still waiting for the flush of its event. *)
C26_Witness ==
    /\ proc[1].kind = "sensor" /\ proc[1].pc = "flushEvent"
    /\ Len(store) = 1
    /\ health.status = "OK"
    /\ chart.code = 200 /\ Len(chart.points) = 1
    /\ logs.code = 200
    /\ records.code = 200 /\ Len(records.data) = 1
    /\ explorer.pc = "done" /\ Len(explorer.response.data) = 1

====
